---- MODULE Spec2Model ----
(***************************************************************************)
(* Model of scripts/fix-colors.py: a one-shot rewriter that replaces       *)
(* hardcoded theme colours in stylesheets by CSS variables.                 *)
(*                                                                         *)
(* Text is a sequence of one-character strings, so that the regular        *)
(* expressions of the script are matched character by character, the way   *)
(* Python's re module matches them.                                        *)
(***************************************************************************)
EXTENDS Integers, Sequences, FiniteSets, TLC

(***************************************************************************)
(* Bounds of the model.                                                    *)
(***************************************************************************)
\* A file's text is the concatenation of at most MaxFrags fragments.
MaxFrags == 2
\* The script is run at most MaxRuns times in succession.
MaxRuns == 2

(***************************************************************************)
(* Python's re: character classes.                                         *)
(***************************************************************************)
\* \s of a str pattern (the ASCII members; \v has no TLA+ escape).
Whitespace == {" ", "\t", "\n", "\r", "\f"}

Digits == {"0","1","2","3","4","5","6","7","8","9"}

HexDigits == Digits \cup {"a","b","c","d","e","f","A","B","C","D","E","F"}

\* \w of a str pattern (the ASCII members): letters, digits, underscore.
WordChars ==
  Digits \cup {"_"} \cup
  {"a","b","c","d","e","f","g","h","i","j","k","l","m","n","o","p","q","r",
   "s","t","u","v","w","x","y","z"} \cup
  {"A","B","C","D","E","F","G","H","I","J","K","L","M","N","O","P","Q","R",
   "S","T","U","V","W","X","Y","Z"}

IsWordAt(s, i) == i >= 1 /\ i <= Len(s) /\ s[i] \in WordChars

\* The mutant of WordBoundary: a pattern written without its trailing \b.
NoBoundary(s, i) == TRUE

\* \b at position i: between s[i-1] and s[i] exactly one is a word character
\* (what lies outside the text counts as a non-word character).
WordBoundary(s, i) == IsWordAt(s, i - 1) # IsWordAt(s, i)

(***************************************************************************)
(* Python's re: patterns.  A pattern is a sequence of elements: a literal  *)
(* character, \s*, \s+, \b or [^}]+.                                       *)
(***************************************************************************)
Lit(cs) == [k \in 1..Len(cs) |-> [t |-> "lit", c |-> cs[k]]]

WS0 == <<[t |-> "ws*", c |-> ""]>>

WS1 == <<[t |-> "ws+", c |-> ""]>>

WB == <<[t |-> "wb", c |-> ""]>>

NotBrace1 == <<[t |-> "nb+", c |-> ""]>>

\* Whether character ch is in the class a quantified element repeats.
InClass(e, ch) == IF e.t = "nb+" THEN ch # "}" ELSE ch \in Whitespace

RECURSIVE RunLen(_, _, _)
\* The number of consecutive characters of e's class in s from position i on.
RunLen(e, s, i) ==
  IF i <= Len(s) /\ InClass(e, s[i]) THEN 1 + RunLen(e, s, i + 1) ELSE 0

RECURSIVE Match(_, _, _, _)
RECURSIVE Greedy(_, _, _, _, _)
\* re's backtracking match of p[k..] at position i of s: the position after
\* the match, or 0 when there is none.  (No pattern here matches the empty
\* text, and positions start at 1, so 0 is free to mean failure.)
Match(p, k, s, i) ==
  IF k > Len(p) THEN i
  ELSE LET e == p[k] IN
    CASE e.t = "lit" ->
           IF i <= Len(s) /\ s[i] = e.c THEN Match(p, k + 1, s, i + 1) ELSE 0
      [] e.t = "wb" ->
           IF WordBoundary(s, i) THEN Match(p, k + 1, s, i) ELSE 0
      [] e.t = "ws*" -> Greedy(p, k, s, i + RunLen(e, s, i), i)
      [] OTHER ->
           LET n == RunLen(e, s, i) IN
           IF n = 0 THEN 0 ELSE Greedy(p, k, s, i + n, i + 1)

\* A greedy quantifier: the longest repetition first (the rest of the
\* pattern from position j), then one character less, down to position lo.
Greedy(p, k, s, j, lo) ==
  LET r == Match(p, k + 1, s, j) IN
  IF r # 0 THEN r
  ELSE IF j > lo THEN Greedy(p, k, s, j - 1, lo) ELSE 0

\* The positions from i on at which p matches (a pattern that begins with
\* a literal is tried only where that character stands).
MatchStarts(p, s, i) ==
  LET first == p[1] IN
  { j \in i..Len(s) :
      /\ first.t = "lit" => s[j] = first.c
      /\ Match(p, 1, s, j) # 0 }

Least(S) == CHOOSE j \in S : \A k \in S : j <= k

RECURSIVE SubFrom(_, _, _, _)
\* re.sub from position i on: the leftmost match is replaced and the scan
\* goes on after it.
SubFrom(p, repl, s, i) ==
  LET starts == MatchStarts(p, s, i) IN
  IF starts = {} THEN SubSeq(s, i, Len(s))
  ELSE LET j == Least(starts)
       IN SubSeq(s, i, j - 1) \o repl \o SubFrom(p, repl, s, Match(p, 1, s, j))

\* re.sub(pattern, repl, s): every non-overlapping match replaced.
Sub(p, repl, s) == SubFrom(p, repl, s, 1)

RECURSIVE FindAllFrom(_, _, _)
FindAllFrom(p, s, i) ==
  LET starts == MatchStarts(p, s, i) IN
  IF starts = {} THEN << >>
  ELSE LET j == Least(starts)
           e == Match(p, 1, s, j)
       IN <<SubSeq(s, j, e - 1)>> \o FindAllFrom(p, s, e)

\* re.findall(pattern, s): the non-overlapping matches, left to right.
FindAll(p, s) == FindAllFrom(p, s, 1)

(***************************************************************************)
(* color_replacements: the ordered table of (pattern, replacement).        *)
(***************************************************************************)
Rule(p, r) == [pattern |-> p, replacement |-> r]

\* r'#xxxxxx\b'
HexPattern(tok) == Lit(tok) \o WB

\* r'rgba\(\s*R,\s*G,\s*B,\s*A\)'
RgbaPattern(r, g, b, a) ==
  Lit(<<"r","g","b","a","(">>) \o WS0 \o Lit(r) \o Lit(<<",">>) \o WS0 \o Lit(g) \o
  Lit(<<",">>) \o WS0 \o Lit(b) \o Lit(<<",">>) \o WS0 \o Lit(a) \o Lit(<<")">>)

ColorMix(v, pct) ==
  <<"c","o","l","o","r","-","m","i","x","(","i","n"," ","s","r","g","b",","," ","v","a","r","(","-","-">> \o v \o <<")"," ">> \o pct \o <<"%",","," ","t","r","a","n","s","p","a","r","e","n","t",")">>

\* r'linear-gradient\(135deg,\s*#a855f7\s+0%,\s*#9333ea\s+100%\)'
GradientPattern ==
  Lit(<<"l","i","n","e","a","r","-","g","r","a","d","i","e","n","t","(","1","3","5","d","e","g",",">>) \o WS0 \o Lit(<<"#","a","8","5","5","f","7">>) \o WS1 \o
  Lit(<<"0","%",",">>) \o WS0 \o Lit(<<"#","9","3","3","3","e","a">>) \o WS1 \o Lit(<<"1","0","0","%",")">>)

GradientRule == Rule(GradientPattern, <<"v","a","r","(","-","-","p","r","i","m","a","r","y","-","g","r","a","d","i","e","n","t",")">>)

\* The seven bare hex colours, in table order.
HexTokens ==
  << <<"#","9","3","3","3","e","a">>, <<"#","a","8","5","5","f","7">>, <<"#","c","0","8","4","f","c">>, <<"#","7","c","3","a","e","d">>, <<"#","f","3","e","8","f","f">>,
     <<"#","f","a","f","5","f","f">>, <<"#","e","9","d","5","f","f">> >>

HexReplacements ==
  << <<"v","a","r","(","-","-","p","r","i","m","a","r","y",")">>, <<"v","a","r","(","-","-","p","r","i","m","a","r","y","-","l","i","g","h","t",")">>, <<"v","a","r","(","-","-","p","r","i","m","a","r","y","-","l","i","g","h","t","e","r",")">>,
     <<"v","a","r","(","-","-","p","r","i","m","a","r","y","-","d","a","r","k",")">>, <<"v","a","r","(","-","-","p","r","i","m","a","r","y","-","b","g","-","l","i","g","h","t",")">>,
     <<"v","a","r","(","-","-","p","r","i","m","a","r","y","-","b","g","-","l","i","g","h","t","e","r",")">>, <<"v","a","r","(","-","-","p","r","i","m","a","r","y","-","b","o","r","d","e","r",")">> >>

HexRules == [k \in 1..Len(HexTokens) |->
               Rule(HexPattern(HexTokens[k]), HexReplacements[k])]

RgbaRules ==
  << Rule(RgbaPattern(<<"2","4","3">>, <<"2","3","2">>, <<"2","5","5">>, <<"0",".","4">>), ColorMix(<<"p","r","i","m","a","r","y","-","b","g","-","l","i","g","h","t">>, <<"4","0">>)),
     Rule(RgbaPattern(<<"2","3","3">>, <<"2","1","3">>, <<"2","5","5">>, <<"0",".","6">>), ColorMix(<<"p","r","i","m","a","r","y","-","b","o","r","d","e","r">>, <<"6","0">>)),
     Rule(RgbaPattern(<<"1","6","8">>, <<"8","5">>, <<"2","4","7">>, <<"0",".","0","5">>), ColorMix(<<"p","r","i","m","a","r","y","-","l","i","g","h","t">>, <<"5">>)),
     Rule(RgbaPattern(<<"1","6","8">>, <<"8","5">>, <<"2","4","7">>, <<"0",".","1">>), ColorMix(<<"p","r","i","m","a","r","y">>, <<"1","0">>)),
     Rule(RgbaPattern(<<"1","6","8">>, <<"8","5">>, <<"2","4","7">>, <<"0",".","1","5">>), ColorMix(<<"p","r","i","m","a","r","y","-","l","i","g","h","t">>, <<"1","5">>)),
     Rule(RgbaPattern(<<"1","6","8">>, <<"8","5">>, <<"2","4","7">>, <<"0",".","2">>), ColorMix(<<"p","r","i","m","a","r","y","-","l","i","g","h","t">>, <<"2","0">>)),
     Rule(RgbaPattern(<<"1","6","8">>, <<"8","5">>, <<"2","4","7">>, <<"0",".","3">>), ColorMix(<<"p","r","i","m","a","r","y">>, <<"3","0">>)),
     Rule(RgbaPattern(<<"1","4","7">>, <<"5","1">>, <<"2","3","4">>, <<"0",".","0","2">>), ColorMix(<<"p","r","i","m","a","r","y">>, <<"2">>)),
     Rule(RgbaPattern(<<"1","4","7">>, <<"5","1">>, <<"2","3","4">>, <<"0",".","0","5">>), ColorMix(<<"p","r","i","m","a","r","y">>, <<"5">>)),
     Rule(RgbaPattern(<<"1","4","7">>, <<"5","1">>, <<"2","3","4">>, <<"0",".","1">>), ColorMix(<<"p","r","i","m","a","r","y">>, <<"1","0">>)),
     Rule(RgbaPattern(<<"1","4","7">>, <<"5","1">>, <<"2","3","4">>, <<"0",".","1","5">>), ColorMix(<<"p","r","i","m","a","r","y">>, <<"1","5">>)),
     Rule(RgbaPattern(<<"1","4","7">>, <<"5","1">>, <<"2","3","4">>, <<"0",".","2">>), <<"v","a","r","(","-","-","p","r","i","m","a","r","y","-","s","h","a","d","o","w",")">>),
     Rule(RgbaPattern(<<"1","4","7">>, <<"5","1">>, <<"2","3","4">>, <<"0",".","3">>), <<"v","a","r","(","-","-","p","r","i","m","a","r","y","-","s","h","a","d","o","w","-","h","o","v","e","r",")">>) >>

\* The mutant of color_replacements: the hex rules ahead of the gradient.
color_replacements_hex_first == HexRules \o <<GradientRule>> \o RgbaRules

\* The dict of lines 21-47, in insertion order (the order .items() yields).
color_replacements == <<GradientRule>> \o HexRules \o RgbaRules

(***************************************************************************)
(* Paths and the file system.                                              *)
(***************************************************************************)
component_dir == <<"s","r","c","/","c","o","m","p","o","n","e","n","t","s">>

dark_mode_file == <<"s","r","c","/","s","t","y","l","e","s","/","d","a","r","k","-","m","o","d","e",".","c","s","s">>

app_css_file == <<"s","r","c","/","s","t","y","l","e","s","/","A","p","p",".","c","s","s">>

\* os.path.join(dir, name) on a POSIX system.
Join(dir, name) == dir \o <<"/">> \o name

\* str.endswith(suffix): an exact, case-sensitive suffix.
EndsWith(s, suffix) ==
  /\ Len(s) >= Len(suffix)
  /\ SubSeq(s, Len(s) - Len(suffix) + 1, Len(s)) = suffix

\* The names a component directory may hold.
FileNames == { <<"a",".","c","s","s">>, <<"b",".","c","s","s">>, <<"c",".","C","S","S">>, <<"n","o","t","e","s",".","t","x","t">> }

\* How the I/O on a file fails: not at all; on reading (permission denied,
\* undecodable bytes); on opening for writing (the file stays as it was);
\* or while writing, after the open has truncated the file, which is left
\* empty ("write") or with the first half of the text ("partial").
Faults == {"none", "read", "open", "write", "partial"}

\* The message of the exception raised for a fault.
ErrorMessage(f) ==
  CASE f = "read" -> "cannot read"
    [] f = "open" -> "cannot open for writing"
    [] OTHER -> "cannot write"

\* What a failed write of `content` leaves in a file that held `old`.
LeftByFailedWrite(f, old, content) ==
  CASE f = "open" -> old
    [] f = "write" -> << >>
    [] OTHER -> SubSeq(content, 1, Len(content) \div 2)

(***************************************************************************)
(* Output lines.                                                           *)
(***************************************************************************)
Line(kind, path, n, msg) == [kind |-> kind, path |-> path, n |-> n, msg |-> msg]

StartBanner == Line("start", << >>, 0, "")

EndBanner == Line("end", << >>, 0, "")

ChangedLine(path, n) == Line("changed", path, n, "")

SkippedLine(path) == Line("skipped", path, 0, "")

ErrorLine(path, msg) == Line("error", path, 0, msg)

FixedLine(path) == Line("fixed", path, 0, "")

(***************************************************************************)
(* fix_colors_in_file.                                                     *)
(***************************************************************************)
\* The mutant of changes_count: one per rule that changed the text.
changes_count_per_rule(pattern, content) == 1

\* changes_count = len(re.findall(pattern, content))
changes_count(pattern, content) == Len(FindAll(pattern, content))

\* The mutant of ShouldSave: the file is saved whatever the rules did.
AlwaysSave(content, original_content) == TRUE

\* if content != original_content
ShouldSave(content, original_content) == content # original_content

RECURSIVE RuleLoop(_, _, _)
\* The loop over color_replacements.items(), from rule k on.
RuleLoop(k, content, changes_made) ==
  IF k > Len(color_replacements)
  THEN [content |-> content, changes_made |-> changes_made]
  ELSE LET pattern == color_replacements[k].pattern
           new_content == Sub(pattern, color_replacements[k].replacement, content)
       IN IF new_content # content
          THEN RuleLoop(k + 1, new_content,
                        changes_made + changes_count(pattern, content))
          ELSE RuleLoop(k + 1, content, changes_made)

\* What a call did: the text read and the text the rules left (empty when
\* the read failed), whether the file was opened for writing and whether the
\* write completed, and the value returned.
Call(kind, path, read_ok, original, final, changes, attempted, completed, ret) ==
  [kind |-> kind, path |-> path, read_ok |-> read_ok, original |-> original,
   final |-> final, changes |-> changes, attempted |-> attempted,
   completed |-> completed, ret |-> ret]

\* fix_colors_in_file(filepath) on the files `files` with the faults `flt`:
\* the files afterwards, the line printed, and the record of the call.
fix_colors_in_file(filepath, files, flt) ==
  IF flt[filepath] = "read"
  THEN [files |-> files,
        line |-> ErrorLine(filepath, ErrorMessage("read")),
        call |-> Call("general", filepath, FALSE, << >>, << >>, 0, FALSE, FALSE, FALSE)]
  ELSE
    LET original_content == files[filepath]
        res == RuleLoop(1, original_content, 0)
    IN IF ShouldSave(res.content, original_content)
       THEN IF flt[filepath] = "none"
            THEN [files |-> [files EXCEPT ![filepath] = res.content],
                  line |-> ChangedLine(filepath, res.changes_made),
                  call |-> Call("general", filepath, TRUE, original_content,
                                res.content, res.changes_made, TRUE, TRUE, TRUE)]
            ELSE [files |-> [files EXCEPT ![filepath] =
                              LeftByFailedWrite(flt[filepath], original_content,
                                                res.content)],
                  line |-> ErrorLine(filepath, ErrorMessage(flt[filepath])),
                  call |-> Call("general", filepath, TRUE, original_content,
                                res.content, res.changes_made, TRUE, FALSE, FALSE)]
       ELSE [files |-> files,
             line |-> SkippedLine(filepath),
             call |-> Call("general", filepath, TRUE, original_content,
                           res.content, res.changes_made, FALSE, FALSE, FALSE)]

(***************************************************************************)
(* The special case of main: the loading spinner of App.css.               *)
(***************************************************************************)
\* r'\.app-loading-spinner \{[^}]+color:\s*#9333ea;'
SpinnerPattern ==
  Lit(<<".","a","p","p","-","l","o","a","d","i","n","g","-","s","p","i","n","n","e","r"," ","{">>) \o NotBrace1 \o Lit(<<"c","o","l","o","r",":">>) \o WS0 \o
  Lit(<<"#","9","3","3","3","e","a",";">>)

SpinnerReplacement == <<".","a","p","p","-","l","o","a","d","i","n","g","-","s","p","i","n","n","e","r"," ","{","\n"," "," ","c","o","l","o","r",":"," ","v","a","r","(","-","-","p","r","i","m","a","r","y",")",";">>

\* Lines 113-121 of main on the files `files` with the faults `flt`: no
\* try/except surrounds them, so a fault ends the process (crashed).
fix_loading_spinner(files, flt) ==
  IF flt[app_css_file] = "read"
  THEN [files |-> files, lines |-> << >>, crashed |-> TRUE,
        call |-> Call("scoped", app_css_file, FALSE, << >>, << >>, 0, FALSE, FALSE, FALSE)]
  ELSE
    LET original == files[app_css_file]
        content == Sub(SpinnerPattern, SpinnerReplacement, original)
    IN IF flt[app_css_file] = "none"
       THEN [files |-> [files EXCEPT ![app_css_file] = content],
             lines |-> <<FixedLine(app_css_file)>>, crashed |-> FALSE,
             call |-> Call("scoped", app_css_file, TRUE, original, content, 0,
                           TRUE, TRUE, FALSE)]
       ELSE [files |-> [files EXCEPT ![app_css_file] =
                         LeftByFailedWrite(flt[app_css_file], original, content)],
             lines |-> << >>, crashed |-> TRUE,
             call |-> Call("scoped", app_css_file, TRUE, original, content, 0,
                           TRUE, FALSE, FALSE)]

(***************************************************************************)
(* The inputs: the texts the files hold when the script starts.            *)
(***************************************************************************)
ExactGradient == <<"l","i","n","e","a","r","-","g","r","a","d","i","e","n","t","(","1","3","5","d","e","g",","," ","#","a","8","5","5","f","7"," ","0","%",","," ","#","9","3","3","3","e","a"," ","1","0","0","%",")">>

\* The pieces the texts of the stylesheets are made of.
Fragments ==
  { <<"#","9","3","3","3","e","a">>, <<"#","a","8","5","5","f","7">>, <<"f","f">>, <<"g">>, <<"_">>, <<" ">>,
    ExactGradient,
    <<"l","i","n","e","a","r","-","g","r","a","d","i","e","n","t","(","1","3","5","d","e","g",",","#","a","8","5","5","f","7","\n","0","%",","," "," ","#","9","3","3","3","e","a","\t","1","0","0","%",")">>,
    <<"r","g","b","a","(","1","4","7",","," ","5","1",","," ","2","3","4",","," ","0",".","2",")">>,
    <<"c","o","l","o","r",":"," ","#","9","3","3","3","e","a",";">> }

RECURSIVE TextsUpTo(_)
\* The concatenations of at most n fragments.
TextsUpTo(n) ==
  IF n = 0 THEN { << >> }
  ELSE LET shorter == TextsUpTo(n - 1)
       IN shorter \cup { t \o f : t \in shorter, f \in Fragments }

Texts == TextsUpTo(MaxFrags)

SpinnerHeader == <<".","a","p","p","-","l","o","a","d","i","n","g","-","s","p","i","n","n","e","r"," ","{">>

\* The texts of App.css: a spinner block with or without properties before
\* and after its colour, with or without another rule ahead of it.
AppTexts ==
  { pre \o SpinnerHeader \o before \o color \o after \o <<"\n","}","\n">> :
      pre \in { << >>, <<".","a","p","p"," ","{"," ","c","o","l","o","r",":"," ","#","9","3","3","3","e","a",";"," ","}","\n">> },
      before \in { << >>, <<" ">>, <<"\n"," "," ">>, <<"\n"," "," ","w","i","d","t","h",":"," ","4","0","p","x",";","\n"," "," ">> },
      color \in { <<"c","o","l","o","r",":"," ","#","9","3","3","3","e","a",";">>, <<"c","o","l","o","r",":","#","9","3","3","3","e","a",";">>, <<"c","o","l","o","r",":"," ","#","a","8","5","5","f","7",";">> },
      after \in { << >>, <<"\n"," "," ","t","o","p",":"," ","0",";">> } }

\* The texts of the files of the runs that vary what exists and what fails.
PlainText == <<"b","o","d","y"," ","{"," ","m","a","r","g","i","n",":"," ","0",";"," ","}">>

SampleText == <<"a"," ","{"," ","c","o","l","o","r",":"," ","#","9","3","3","3","e","a",";"," ","}">>

SampleGradient == <<"b"," ","{"," ","b","a","c","k","g","r","o","u","n","d",":"," ">> \o ExactGradient \o <<";"," ","}">>

SampleApp == SpinnerHeader \o <<"\n"," "," ","w","i","d","t","h",":"," ","4","0","p","x",";","\n"," "," ","c","o","l","o","r",":"," ","#","9","3","3","3","e","a",";","\n","}","\n">>

(***************************************************************************)
(* The state.                                                              *)
(***************************************************************************)
VARIABLES
  fs,      \* the files: path -> text
  dirs,    \* the directories that exist
  fault,   \* how the I/O on each file fails: path -> Faults
  pc,      \* where main is: start, components, app, end, done, crashed
  todo,    \* what os.listdir returned and the loop has not visited yet
  out,     \* the lines printed by this run
  calls,   \* the files this run processed, as records (see Call)
  run,     \* the number of this run
  before   \* the files as they were when this run started

vars == <<fs, dirs, fault, pc, todo, out, calls, run, before>>

Exists(path) == path \in DOMAIN fs \/ path \in dirs

\* os.listdir(component_dir), as a set: the order is the file system's.
ListDir == { n \in FileNames : Join(component_dir, n) \in DOMAIN fs }

\* The orders in which the names of S can be listed.
Orders(S) ==
  { o \in [1..Cardinality(S) -> S] : \A i, j \in 1..Cardinality(S) : o[i] = o[j] => i = j }

\* A file system holding the files of `texts` (path -> text), none failing
\* but those of `bad` (path -> fault).
Files(texts, bad) ==
  /\ fs = texts
  /\ fault = [p \in DOMAIN texts |-> IF p \in DOMAIN bad THEN bad[p] ELSE "none"]

Fresh ==
  /\ pc = "start" /\ todo = << >> /\ out = << >> /\ calls = << >> /\ run = 1
  /\ before = fs

ACss == Join(component_dir, <<"a",".","c","s","s">>)

BCss == Join(component_dir, <<"b",".","c","s","s">>)

UpperCss == Join(component_dir, <<"c",".","C","S","S">>)

NotesTxt == Join(component_dir, <<"n","o","t","e","s",".","t","x","t">>)

\* One component stylesheet holding any text, or any text of fewer fragments
\* with any fault.
InitTable ==
  \E t \in Texts, f \in Faults :
    /\ f # "none" => t \in TextsUpTo(MaxFrags - 1)
    /\ dirs = {component_dir}
    /\ Files((ACss :> t), (ACss :> f))
    /\ Fresh

\* App.css holding any spinner text, with any fault.
InitApp ==
  \E t \in AppTexts, f \in Faults :
    /\ dirs = {component_dir}
    /\ Files((ACss :> SampleText) @@ (dark_mode_file :> SampleGradient)
               @@ (app_css_file :> t), (app_css_file :> f))
    /\ Fresh

\* The three targets present or absent, the directory holding one of three
\* listings, and at most one file failing.
InitEnv ==
  \E hasDir, hasDark, hasApp \in BOOLEAN,
     listing \in { {}, {ACss, NotesTxt}, {ACss, BCss, UpperCss} } :
    LET texts == [p \in (IF hasDir THEN listing ELSE {})
                        \cup (IF hasDark THEN {dark_mode_file} ELSE {})
                        \cup (IF hasApp THEN {app_css_file} ELSE {}) |->
                    CASE p = ACss -> SampleText
                      [] p = BCss -> PlainText
                      [] p = dark_mode_file -> SampleGradient
                      [] p = app_css_file -> SampleApp
                      [] OTHER -> SampleText]
    IN /\ dirs = IF hasDir THEN {component_dir} ELSE {}
       /\ \/ Files(texts, << >>)
          \/ \E p \in DOMAIN texts, f \in Faults \ {"none"} : Files(texts, (p :> f))
       /\ Fresh

Init == InitTable \/ InitApp \/ InitEnv

(***************************************************************************)
(* main, step by step.                                                     *)
(***************************************************************************)
\* Lines 96-101: the start banner, and the listing of the component
\* directory when it exists.
Begin ==
  /\ pc = "start"
  /\ out' = Append(out, StartBanner)
  /\ IF Exists(component_dir)
     THEN todo' \in Orders(ListDir)
     ELSE todo' = << >>
  /\ pc' = "components"
  /\ UNCHANGED <<fs, dirs, fault, calls, run, before>>

\* Lines 101-104: one turn of the loop over the listing.
ComponentFile ==
  /\ pc = "components" /\ todo # << >>
  /\ LET filename == Head(todo)
         filepath == Join(component_dir, filename)
     IN IF EndsWith(filename, <<".","c","s","s">>)
        THEN LET r == fix_colors_in_file(filepath, fs, fault)
             IN /\ fs' = r.files
                /\ out' = Append(out, r.line)
                /\ calls' = Append(calls, r.call)
        ELSE UNCHANGED <<fs, out, calls>>
  /\ todo' = Tail(todo)
  /\ UNCHANGED <<dirs, fault, pc, run, before>>

\* Lines 107-109: dark-mode.css, when it exists.
DarkMode ==
  /\ pc = "components" /\ todo = << >>
  /\ IF Exists(dark_mode_file)
     THEN LET r == fix_colors_in_file(dark_mode_file, fs, fault)
          IN /\ fs' = r.files
             /\ out' = Append(out, r.line)
             /\ calls' = Append(calls, r.call)
     ELSE UNCHANGED <<fs, out, calls>>
  /\ pc' = "app"
  /\ UNCHANGED <<dirs, fault, todo, run, before>>

\* Lines 112-121: App.css, when it exists.
AppCss ==
  /\ pc = "app"
  /\ IF Exists(app_css_file)
     THEN LET r == fix_loading_spinner(fs, fault)
          IN /\ fs' = r.files
             /\ out' = out \o r.lines
             /\ calls' = Append(calls, r.call)
             /\ pc' = IF r.crashed THEN "crashed" ELSE "end"
     ELSE /\ pc' = "end"
          /\ UNCHANGED <<fs, out, calls>>
  /\ UNCHANGED <<dirs, fault, todo, run, before>>

\* Line 123: the end banner.
Finish ==
  /\ pc = "end"
  /\ out' = Append(out, EndBanner)
  /\ pc' = "done"
  /\ UNCHANGED <<fs, dirs, fault, todo, calls, run, before>>

\* Lines 125-126: the script is run again on the files the last run left.
Rerun ==
  /\ pc \in {"done", "crashed"} /\ run < MaxRuns
  /\ pc' = "start" /\ run' = run + 1
  /\ out' = << >> /\ calls' = << >> /\ todo' = << >>
  /\ before' = fs
  /\ UNCHANGED <<fs, dirs, fault>>

Next == Begin \/ ComponentFile \/ DarkMode \/ AppCss \/ Finish \/ Rerun

Spec == Init /\ [][Next]_vars

(***************************************************************************)
(* Vocabulary of the properties.                                           *)
(***************************************************************************)
\* The number of places of s where the text `needle` occurs.
CountOcc(needle, s) ==
  Cardinality({ i \in 1..(Len(s) - Len(needle) + 1) :
                  /\ s[i] = needle[1]
                  /\ SubSeq(s, i, i + Len(needle) - 1) = needle })

\* The character after the occurrence of tok at i is in class, or the
\* occurrence ends the text and atEnd says what holds there.
FollowedBy(s, i, tok, class, atEnd) ==
  IF i + Len(tok) > Len(s) THEN atEnd ELSE s[i + Len(tok)] \in class

\* The occurrences of tok in s not followed by a character of class.
FreeOccurrences(tok, s, class) ==
  { i \in 1..(Len(s) - Len(tok) + 1) :
      /\ s[i] = tok[1]
      /\ SubSeq(s, i, i + Len(tok) - 1) = tok
      /\ ~FollowedBy(s, i, tok, class, FALSE) }

\* t is the start of s, and shorter.
ProperPrefix(t, s) == Len(t) < Len(s) /\ t = SubSeq(s, 1, Len(t))

GeneralCalls == { k \in 1..Len(calls) : calls[k].kind = "general" }

ScopedCalls == { k \in 1..Len(calls) : calls[k].kind = "scoped" }

\* The I/O of call c failed.
Failed(c) == ~c.read_ok \/ (c.attempted /\ ~c.completed)

Terminated == pc \in {"done", "crashed"}

NoFaults == \A p \in DOMAIN fault : fault[p] = "none"

RECURSIVE Threaded(_, _)
\* The text after rules k.. of the table, each applied to the output of the
\* one before.  (Taking the length has TLC evaluate each text in turn
\* instead of nesting the evaluations.)
Threaded(k, s) ==
  IF k > Len(color_replacements) \/ Len(s) < 0 THEN s
  ELSE Threaded(k + 1, Sub(color_replacements[k].pattern,
                           color_replacements[k].replacement, s))

RECURSIVE ThreadedMatches(_, _)
\* The matches of rules k.. of the table, each counted in the output of the
\* one before.
ThreadedMatches(k, s) ==
  IF k > Len(color_replacements) THEN 0
  ELSE Len(FindAll(color_replacements[k].pattern, s))
       + ThreadedMatches(k + 1, Sub(color_replacements[k].pattern,
                                    color_replacements[k].replacement, s))

\* No pattern the call applies matches the text it read.
NoPatternMatches(c) ==
  IF c.kind = "scoped"
  THEN FindAll(SpinnerPattern, c.original) = << >>
  ELSE \A k \in 1..Len(color_replacements) :
         FindAll(color_replacements[k].pattern, c.original) = << >>

(***************************************************************************)
(* C1                                                                      *)
(***************************************************************************)
\* C1: in every phase, App.css included, a read or write failure on a file
\* is reported as that file's error line and does not terminate the run.
C1_FailureContained ==
  /\ pc # "crashed"
  /\ \A k \in 1..Len(calls) :
       Failed(calls[k]) =>
         \E i \in 1..Len(out) : out[i].kind = "error" /\ out[i].path = calls[k].path

(***************************************************************************)
(* C2                                                                      *)
(***************************************************************************)
\* C2: a processed file in which no pattern matches, App.css included, is
\* not written and is reported as skipped.
C2_UntouchedFileSkipped ==
  \A k \in 1..Len(calls) :
    (calls[k].read_ok /\ NoPatternMatches(calls[k])) =>
      /\ ~calls[k].attempted
      /\ \E i \in 1..Len(out) : out[i] = SkippedLine(calls[k].path)

(***************************************************************************)
(* C3                                                                      *)
(***************************************************************************)
SpinnerColor == <<"c","o","l","o","r",":"," ","#","9","3","3","3","e","a",";">>

\* The places of `color: #9333ea;` inside a spinner block of s: after a
\* header, with no closing brace in between.
SpinnerColorPlaces(s) ==
  { i \in 1..Len(s) :
      /\ i + Len(SpinnerColor) - 1 <= Len(s)
      /\ SubSeq(s, i, i + Len(SpinnerColor) - 1) = SpinnerColor
      /\ \E h \in 1..i :
           /\ h + Len(SpinnerHeader) <= i
           /\ SubSeq(s, h, h + Len(SpinnerHeader) - 1) = SpinnerHeader
           /\ \A j \in (h + Len(SpinnerHeader))..(i - 1) : s[j] # "}" }

\* s with the literal #9333ea of the colour property at place i replaced by
\* var(--primary), and nothing else changed.
OnlyValueReplaced(s, i) ==
  SubSeq(s, 1, i + 6) \o <<"v","a","r","(","-","-","p","r","i","m","a","r","y",")">> \o SubSeq(s, i + 14, Len(s))

\* C3: when a spinner block of App.css contains `color: #9333ea;`, the
\* result is the input with only that literal replaced by var(--primary).
C3_OnlyColorValueReplaced ==
  \A k \in ScopedCalls :
    (calls[k].completed /\ Cardinality(SpinnerColorPlaces(calls[k].original)) = 1) =>
      \A i \in SpinnerColorPlaces(calls[k].original) :
        calls[k].final = OnlyValueReplaced(calls[k].original, i)

(***************************************************************************)
(* C4                                                                      *)
(***************************************************************************)
\* C4: a second run in succession changes nothing: every file is as the
\* first run left it, no file is rewritten, none is reported as changed.
C4_SecondRunChangesNothing ==
  (run >= 2 /\ pc = "done" /\ NoFaults) =>
    /\ fs = before
    /\ \A k \in 1..Len(calls) : ~calls[k].attempted
    /\ \A i \in 1..Len(out) : out[i].kind # "changed"

(***************************************************************************)
(* C5                                                                      *)
(***************************************************************************)
\* C5 (as claimed): a bare hex-colour rule matches an occurrence of its
\* token exactly when no hex digit follows it: every other character, and
\* the end of the text, lets it match.
C5_MatchesUnlessHexFollows ==
  \A k \in GeneralCalls : \A r \in 1..Len(HexTokens) :
    calls[k].read_ok =>
      Len(FindAll(HexPattern(HexTokens[r]), calls[k].original))
        = Cardinality(FreeOccurrences(HexTokens[r], calls[k].original, HexDigits))

\* C5 (amended): a bare hex-colour rule matches an occurrence of its token
\* exactly when no word character (letter, digit, underscore) follows it:
\* a non-word character, or the end of the text, lets it match.
C5_MatchesUnlessWordFollows ==
  \A k \in GeneralCalls : \A r \in 1..Len(HexTokens) :
    calls[k].read_ok =>
      Len(FindAll(HexPattern(HexTokens[r]), calls[k].original))
        = Cardinality(FreeOccurrences(HexTokens[r], calls[k].original, WordChars))

\* A file holding #9333ea_ was processed: the token, followed by a word
\* character that is no hex digit, was left as it was.
C5_Witness ==
  \E k \in GeneralCalls :
    /\ calls[k].read_ok /\ ~calls[k].attempted
    /\ calls[k].original = <<"#","9","3","3","3","e","a","_">>
    /\ calls[k].final = calls[k].original
    /\ fs[calls[k].path] = calls[k].original

(***************************************************************************)
(* C6                                                                      *)
(***************************************************************************)
PrimaryGradient == <<"v","a","r","(","-","-","p","r","i","m","a","r","y","-","g","r","a","d","i","e","n","t",")">>

\* C6: a text containing the exact gradient expression has every such
\* expression rewritten to var(--primary-gradient); neither hex token of it
\* is replaced on its own (no half-rewritten gradient is produced), and a
\* file holding just the expression is reported with one change.
C6_GradientRewrittenWhole ==
  \A k \in GeneralCalls :
    LET c == calls[k] IN
    (c.read_ok /\ CountOcc(ExactGradient, c.original) > 0) =>
      /\ CountOcc(ExactGradient, c.final) = 0
      /\ CountOcc(PrimaryGradient, c.final) >= CountOcc(ExactGradient, c.original)
      /\ CountOcc(<<"l","i","n","e","a","r","-","g","r","a","d","i","e","n","t","(","1","3","5","d","e","g",","," ","v","a","r","(">>, c.final) = 0
      /\ CountOcc(<<"v","a","r","(","-","-","p","r","i","m","a","r","y",")"," ","1","0","0","%",")">>, c.final) = 0
      /\ (c.original = ExactGradient =>
            c.final = PrimaryGradient /\ c.changes = 1)

\* A file holding the gradient and then a bare #9333ea was rewritten: one
\* change for the gradient, one for the token outside it.
C6_Witness ==
  \E k \in GeneralCalls :
    /\ calls[k].completed
    /\ calls[k].original = ExactGradient \o <<"#","9","3","3","3","e","a">>
    /\ calls[k].final = PrimaryGradient \o <<"v","a","r","(","-","-","p","r","i","m","a","r","y",")">>
    /\ calls[k].changes = 2

(***************************************************************************)
(* C7                                                                      *)
(***************************************************************************)
\* The files main is to process, as the run found them.
Present ==
  (IF component_dir \in dirs
   THEN { Join(component_dir, n) : n \in { m \in ListDir : EndsWith(m, <<".","c","s","s">>) } }
   ELSE {})
  \cup ({dark_mode_file, app_css_file} \cap DOMAIN fs)

\* C7: with any of the three targets absent, a terminated run has printed no
\* line and made no call for what is absent, has processed every file that
\* is present, and has ended with the end banner.
C7_MissingTargetIsNoOp ==
  (Terminated /\ (component_dir \notin dirs \/ dark_mode_file \notin DOMAIN fs
                    \/ app_css_file \notin DOMAIN fs)) =>
    /\ \A i \in 1..Len(out) : out[i].path = << >> \/ out[i].path \in Present
    /\ \A k \in 1..Len(calls) : calls[k].path \in Present
    /\ \A p \in Present : \E k \in 1..Len(calls) : calls[k].path = p
    /\ out # << >> /\ out[Len(out)] = EndBanner

(***************************************************************************)
(* C8                                                                      *)
(***************************************************************************)
\* The phase of a processed path: 1 component directory, 2 dark mode, 3 App.
Phase(path) ==
  IF path = dark_mode_file THEN 2 ELSE IF path = app_css_file THEN 3 ELSE 1

\* C8: the output of a run is the start banner, one status line per
\* processed file in phase order, each changed-with-count, skipped or
\* error, and the end banner.
C8_OutputShape ==
  Terminated =>
    /\ Len(out) = Len(calls) + 2
    /\ out[1] = StartBanner /\ out[Len(out)] = EndBanner
    /\ \A k \in 1..Len(calls) :
         /\ k + 1 <= Len(out)
         /\ out[k + 1].path = calls[k].path
         /\ out[k + 1].kind \in {"changed", "skipped", "error"}
    /\ \A j, k \in 1..Len(calls) :
         j < k => Phase(calls[j].path) <= Phase(calls[k].path)

(***************************************************************************)
(* C9                                                                      *)
(***************************************************************************)
\* C9 (as claimed): a file whose read succeeds is overwritten exactly when
\* the final text differs from the original, with the threaded result, and
\* the function returns True exactly when that write completed.
C9_OverwrittenIffDiffers ==
  \A k \in GeneralCalls :
    LET c == calls[k] IN
    c.read_ok =>
      /\ c.final = Threaded(1, c.original)
      /\ (c.final # c.original) <=> (c.completed /\ fs[c.path] = c.final)
      /\ c.ret <=> c.completed

\* C9 (amended): a file whose read succeeds is opened for writing exactly
\* when the final text, the threaded result of the table, differs from the
\* original, and at most once a run; when that write completes the file
\* holds exactly the final text, when it fails the file is as it was or
\* holds a proper prefix of the final text, and otherwise it is untouched;
\* the function returns True exactly when the write completed.
C9_SavedIffDiffers ==
  /\ \A j, k \in 1..Len(calls) : calls[j].path = calls[k].path => j = k
  /\ \A k \in GeneralCalls :
       LET c == calls[k] IN
       c.read_ok =>
         /\ c.final = Threaded(1, c.original)
         /\ c.attempted <=> (c.final # c.original)
         /\ c.completed => (c.attempted /\ fs[c.path] = c.final)
         /\ (c.attempted /\ ~c.completed) =>
              \/ fs[c.path] = c.original
              \/ ProperPrefix(fs[c.path], c.final)
         /\ ~c.attempted => fs[c.path] = c.original
         /\ c.ret <=> c.completed

\* A file with two replaceable texts was saved once with both replaced, the
\* second rule working on the output of the first.
C9_Witness ==
  \E k \in GeneralCalls :
    /\ calls[k].original = <<"r","g","b","a","(","1","4","7",","," ","5","1",","," ","2","3","4",","," ","0",".","2",")">> \o <<"#","a","8","5","5","f","7">>
    /\ calls[k].completed /\ calls[k].ret
    /\ fs[calls[k].path] = <<"v","a","r","(","-","-","p","r","i","m","a","r","y","-","s","h","a","d","o","w",")">> \o <<"v","a","r","(","-","-","p","r","i","m","a","r","y","-","l","i","g","h","t",")">>

(***************************************************************************)
(* C10                                                                     *)
(***************************************************************************)
\* C10: the count reported for a file is the sum, over the rules in table
\* order, of the matches of each rule in the text the rules before it
\* produced; a file holding only `color: #9333ea;` is reported with 1.
C10_CountIsThreadedMatches ==
  \A k \in GeneralCalls :
    LET c == calls[k] IN
    c.read_ok =>
      /\ c.changes = ThreadedMatches(1, c.original)
      /\ (c.completed =>
            \E i \in 1..Len(out) : out[i] = ChangedLine(c.path, c.changes))
      /\ (c.original = <<"c","o","l","o","r",":"," ","#","9","3","3","3","e","a",";">> => c.changes = 1)

\* A file holding only `color: #9333ea;` was rewritten and reported with a
\* count of 1.
C10_Witness ==
  \E k \in GeneralCalls, i \in 1..Len(out) :
    /\ calls[k].original = <<"c","o","l","o","r",":"," ","#","9","3","3","3","e","a",";">>
    /\ calls[k].final = <<"c","o","l","o","r",":"," ","v","a","r","(","-","-","p","r","i","m","a","r","y",")",";">>
    /\ out[i] = ChangedLine(calls[k].path, 1)
====
